---- MODULE Spec2Model ----
(***************************************************************************)
(* Model of the Cardputer app framework: AppSelector and AppBase           *)
(* (libs/app_base.py), Framework (lib/framework.py) and the hierarchical   *)
(* LauncherApp (apps/launcher.py).                                         *)
(*                                                                         *)
(* The program state is kept in the VARIABLES below.  Every method is an   *)
(* operator from a state record to a state record, so that a handler that  *)
(* calls other methods is the composition of their operators and an action *)
(* of the model is one whole call from the host program or one whole       *)
(* iteration of the main loop.                                             *)
(***************************************************************************)
EXTENDS Integers, Sequences, FiniteSets, TLC

\* ------------------------------------------------------------------ bounds
MaxInstalls == 2     \* install() calls the host program makes before start()
MaxGen      == 1     \* cache clears that are followed by a fresh load
MaxLive     == 1     \* un-cancelled tasks one instance may accumulate
MaxSelLen   == 3     \* list length in the AppSelector-only specification
MaxCalls    == 6     \* length of a sequence of direct API calls
MaxPassword == 2     \* characters typed into the WiFi password field
FsDepth     == 2     \* names in the longest path the file system holds
MaxFtpCalls == 4     \* set_auth and set_read_only calls, connections and commands
MaxSoundCalls == 5   \* keys dispatched to SoundDemo and launches of it

\* ------------------------------------------------------- program constants
KEYCODE_ESC   == 27
KEYCODE_ENTER == 13
KEYCODE_UP    == 38
KEYCODE_DOWN  == 40
KEY_SEMICOLON == 59
KEY_PERIOD    == 46
KEY_R         == 114
KEY_OTHER     == 120
VISIBLE_ITEMS == 4

None == "None"

\* The keys the keyboard reports in the model; KEY_OTHER is a key the launcher
\* has no binding for.
Keys == {KEYCODE_ESC, KEYCODE_ENTER, KEYCODE_UP, KEYCODE_DOWN,
         KEY_SEMICOLON, KEY_PERIOD, KEY_R, KEY_OTHER}

\* RUN_MODE of launcher.py: "remote" when /remote/main.py exists, else "flash"
RunModes == {"remote", "flash"}

\* --------------------------------------------------------------- instances
\* App instances are <<name, generation>>.  The host program creates the
\* generation-0 instances it installs; _load_app creates <<path, gen>>, a new
\* object for every load that follows a cache clear.
LauncherInst == <<"launcher", 0>>
HostA        == <<"anim_demo", 0>>
HostApps     == {LauncherInst, HostA}

\* The apps directory as scan_apps finds it: a root menu with two submenus and
\* three apps, of which only hello_world loads (notepad defines no AppBase
\* subclass, the import of broken fails); "demo" holds five modules without an
\* AppBase subclass and, as its last entry, the FTP server app, so that it is
\* longer than the root menu; "tools" holds the submenu "deep", which is
\* empty.  Submenus are listed before apps (_get_menu_entries).
RegNodes == {"root", "demo", "tools", "deep"}

RegSubmenus(n) ==
    CASE n = "root"  -> <<"demo", "tools">>
      [] n = "demo"  -> <<>>
      [] n = "tools" -> <<"deep">>
      [] n = "deep"  -> <<>>

RegApps(n) ==
    CASE n = "root"  -> <<"hello_world", "notepad", "broken">>
      [] n = "demo"  -> <<"demo/demo_lcd", "demo/demo_text", "demo/demo_nvs",
                          "demo/demo_sound", "demo/demo_widgets",
                          "demo/ftp_server_app">>
      [] n = "tools" -> <<>>
      [] n = "deep"  -> <<>>

Paths == {"hello_world", "notepad", "broken", "demo/demo_lcd", "demo/demo_text",
          "demo/demo_nvs", "demo/demo_sound", "demo/demo_widgets",
          "demo/ftp_server_app"}

\* the modules that define an AppBase subclass
AppPaths == {"hello_world", "demo/ftp_server_app"}

Instances == HostApps \cup (AppPaths \X (0..MaxGen))

\* What the class of an instance overrides:
\*   "launcher"  LauncherApp: on_view, _kb_event_handler
\*   "plain"     an AppBase subclass with a key handler and the default hooks
\*   "bare"      an AppBase subclass without _kb_event_handler (anim_demo)
\*   "srv"       FTPServerApp: on_hide overridden (as in WebServerDemo)
\*   "bad"       a module whose import fails or that has no AppBase subclass
PathKind(p) ==
    CASE p = "hello_world"              -> "plain"
      [] p = "notepad"                  -> "bad"
      [] p = "broken"                   -> "bad"
      [] p = "demo/ftp_server_app"  -> "srv"
      [] OTHER                      -> "bad"

Kind(a) ==
    IF a = LauncherInst THEN "launcher"
    ELSE IF a = HostA THEN "bare"
    ELSE PathKind(a[1])

\* ------------------------------------------------------------------- state
VARIABLES
    pc,          \* "setup" | "run" | "exited" | "crashed": where the host program is
    runMode,     \* RUN_MODE
    apps,        \* Framework._apps
    selApps,     \* AppSelector._apps, the list object the selector reads
    aliased,     \* TRUE while Framework._apps and AppSelector._apps are one list object
    selId,       \* AppSelector._id
    launcher,    \* Framework._launcher
    running,     \* Framework._running
    cache,       \* Framework._app_instances: path -> instance or None
    scanned,     \* Framework._registry_scanned
    registry,    \* Framework._app_registry: None or the root node
    gen,         \* number of cache clears that dropped an instance
    task,        \* AppBase._task is set, per instance
    live,        \* un-cancelled on_run tasks, per instance
    fwSet,       \* instances whose _fw is set
    lsel,        \* LauncherApp._selected
    lscroll,     \* LauncherApp._scroll_offset
    lstack,      \* LauncherApp._menu_stack
    lreg,        \* LauncherApp._current_registry
    evKey,       \* KeyEvent.key
    evStatus,    \* KeyEvent.status
    calls,       \* number of direct API calls made so far
    settings,    \* the SettingsApp instance, the LCD and whether it is current
    ftp,         \* the uftpd module globals, one FTP_client and the files
    sound,       \* the SoundDemo instance and the demo tasks it created
    menu,        \* the globals of main.py's menu launcher
    op,          \* the last call of the host program or the main loop
    trace        \* the hooks and framework calls made during op, in order

vars == <<pc, runMode, apps, selApps, aliased, selId, launcher, running, cache,
          scanned, registry, gen, task, live, fwSet, lsel, lscroll, lstack, lreg,
          evKey, evStatus, calls, settings, ftp, sound, menu, op, trace>>

\* The state as one record, for the operators below.  Three fields are not
\* program state: ret is the value the last call returned, fault is what goes
\* wrong during the call ("import": the import or the constructor raises,
\* "on_install": on_install() raises) and pressed tells whether the user
\* presses a key while an error screen waits for one.
St ==
    [pc |-> pc, runMode |-> runMode, apps |-> apps, selApps |-> selApps,
     aliased |-> aliased, selId |-> selId, launcher |-> launcher,
     running |-> running, cache |-> cache, scanned |-> scanned,
     registry |-> registry, gen |-> gen, task |-> task, live |-> live,
     fwSet |-> fwSet, lsel |-> lsel, lscroll |-> lscroll, lstack |-> lstack,
     lreg |-> lreg, evKey |-> evKey, evStatus |-> evStatus, calls |-> calls,
     trace |-> <<>>,
     ret |-> None, fault |-> "none", pressed |-> FALSE]

Commit(s) ==
    /\ pc' = s.pc
    /\ runMode' = s.runMode
    /\ apps' = s.apps
    /\ selApps' = s.selApps
    /\ aliased' = s.aliased
    /\ selId' = s.selId
    /\ launcher' = s.launcher
    /\ running' = s.running
    /\ cache' = s.cache
    /\ scanned' = s.scanned
    /\ registry' = s.registry
    /\ gen' = s.gen
    /\ task' = s.task
    /\ live' = s.live
    /\ fwSet' = s.fwSet
    /\ lsel' = s.lsel
    /\ lscroll' = s.lscroll
    /\ lstack' = s.lstack
    /\ lreg' = s.lreg
    /\ evKey' = s.evKey
    /\ evStatus' = s.evStatus
    /\ calls' = s.calls
    /\ trace' = s.trace
    /\ UNCHANGED <<settings, ftp, sound, menu>>

\* Who a trace entry is about when it is not an app instance.
FW    == <<"fw", 0>>
RAISE == <<"raise", 0>>

\* An uncaught exception: the rest of the call chain is skipped.
Raise(s, what) == [s EXCEPT !.pc = "crashed", !.trace = Append(@, <<RAISE, what>>)]
Raised(s) == s.pc = "crashed"

Log(s, who, what) == [s EXCEPT !.trace = Append(@, <<who, what>>)]

Contains(seq, x) == \E i \in 1..Len(seq) : seq[i] = x

\* list.index(x): the first position holding x (0-based)
FirstIndex(seq, x) == CHOOSE i \in 0..(Len(seq) - 1) :
                          /\ seq[i + 1] = x
                          /\ \A j \in 0..(i - 1) : seq[j + 1] # x

Count(seq, x) == Cardinality({i \in 1..Len(seq) : seq[i] = x})

\* self._apps.append(app): the selector sees it while it shares the list object
AppendApp(s, a) ==
    [s EXCEPT !.apps = Append(@, a),
              !.selApps = IF s.aliased THEN Append(@, a) ELSE @]

\* ============================================================ AppSelector
\* The selector's methods as functions of the list it reads and its index.
current(list, id) == list[id + 1]

prev(list, id) == (id - 1) % Len(list)

next_no_wrap(list, id) == IF id + 1 < Len(list) THEN id + 1 ELSE id

next(list, id) == (id + 1) % Len(list)

select_last(list, app) ==
    CHOOSE i \in 0..(Len(list) - 1) :
        /\ list[i + 1] = app
        /\ \A j \in (i + 1)..(Len(list) - 1) : list[j + 1] # app

select(list, app) == FirstIndex(list, app)

index(list, i) == i % Len(list)

\* self._app_selector.current(): IndexError when the index is outside the list
CurrentOk(s) == s.selId < Len(s.selApps)
Current(s) == current(s.selApps, s.selId)

\* self._app_selector.select(app): ValueError when app is not in the list
Select(s, app) ==
    IF Contains(s.selApps, app)
    THEN [Log(s, FW, "select") EXCEPT !.selId = select(s.selApps, app)]
    ELSE Raise(s, "ValueError")

\* ================================================================ Framework
\* (the parts the launcher's on_view needs come first)
ClearInstances(s) ==
    [s EXCEPT !.cache = [p \in Paths |-> None],
              !.gen = IF \E p \in Paths : s.cache[p] # None THEN @ + 1 ELSE @]

scan_apps(s, force) ==
    IF s.scanned /\ ~force THEN s
    ELSE LET s1 == IF force THEN ClearInstances(s) ELSE s
         IN  [s1 EXCEPT !.registry = "root", !.scanned = TRUE]

\* ================================================================= Launcher
_get_menu_entries(s) ==
    IF s.lreg = None THEN <<>>
    ELSE [i \in 1..Len(RegSubmenus(s.lreg)) |->
              [type |-> "submenu", key |-> RegSubmenus(s.lreg)[i]]]
         \o [i \in 1..Len(RegApps(s.lreg)) |->
              [type |-> "app", key |-> RegApps(s.lreg)[i]]]

\* the mutant does not clamp the selection to the entries
_draw_menu_no_clamp(s) ==
    LET n == Len(_get_menu_entries(s)) IN
    IF n = 0 THEN s
    ELSE LET scr == IF s.lsel < s.lscroll THEN s.lsel
                    ELSE IF s.lsel >= s.lscroll + VISIBLE_ITEMS
                         THEN s.lsel - VISIBLE_ITEMS + 1
                         ELSE s.lscroll
         IN  [s EXCEPT !.lscroll = scr]

\* the mutant puts the selection on the second visible line
_draw_menu_recenter(s) ==
    LET n == Len(_get_menu_entries(s)) IN
    IF n = 0 THEN s
    ELSE LET sel1 == IF s.lsel >= n THEN n - 1 ELSE s.lsel
             sel2 == IF sel1 < 0 THEN 0 ELSE sel1
         IN  [s EXCEPT !.lsel = sel2,
                       !.lscroll = IF sel2 > 0 THEN sel2 - 1 ELSE 0]

_draw_menu(s) ==
    LET n == Len(_get_menu_entries(s)) IN
    IF n = 0 THEN s
    ELSE LET sel1 == IF s.lsel >= n THEN n - 1 ELSE s.lsel
             sel2 == IF sel1 < 0 THEN 0 ELSE sel1
             scr  == IF sel2 < s.lscroll THEN sel2
                     ELSE IF sel2 >= s.lscroll + VISIBLE_ITEMS
                          THEN sel2 - VISIBLE_ITEMS + 1
                          ELSE s.lscroll
         IN  [s EXCEPT !.lsel = sel2, !.lscroll = scr]

launcher_on_view_keep_stack(s, a) ==
    LET s1 == IF a \in s.fwSet
              THEN [scan_apps(s, FALSE) EXCEPT !.lreg = "root"]
              ELSE s
    IN  _draw_menu(s1)

launcher_on_view(s, a) ==
    LET s1 == IF a \in s.fwSet
              THEN [scan_apps(s, FALSE) EXCEPT !.lreg = "root", !.lstack = <<>>]
              ELSE s
    IN  _draw_menu(s1)

\* ================================================================== AppBase
on_install(s, a) ==
    LET s1 == Log(s, a, "on_install") IN
    IF s.fault = "on_install" THEN Raise(s1, "on_install") ELSE s1

on_launch(s, a) == Log(s, a, "on_launch")

on_view(s, a) ==
    IF Kind(a) = "launcher"
    THEN launcher_on_view(Log(s, a, "on_view"), a)
    ELSE Log(s, a, "on_view")

\* asyncio.create_task(self.on_run()); on_run loops until it is cancelled
on_ready(s, a) ==
    [Log(s, a, "on_ready") EXCEPT !.task[a] = TRUE, !.live[a] = @ + 1]

\* AppBase.on_hide cancels the task; FTPServerApp and WebServerDemo override
\* on_hide with a body that stops the server and does not touch self._task.
on_hide(s, a) ==
    LET s1 == Log(s, a, "on_hide") IN
    IF Kind(a) = "srv" THEN s1
    ELSE IF s.task[a]
         THEN [s1 EXCEPT !.task[a] = FALSE, !.live[a] = @ - 1]
         ELSE s1

on_exit(s, a) == Log(s, a, "on_exit")

app_install(s, a) == on_install(s, a)

start_view_first(s, a) ==
    LET s0 == [Log(s, a, "start") EXCEPT !.fwSet = @ \cup {a}]
    IN  Log(on_ready(on_launch(on_view(s0, a), a), a), a, "start_ret")

\* The trace brackets every start() and stop() call with a call and a return
\* entry, so that the hooks each call makes can be told from the log.
start(s, a) ==
    LET s0 == [Log(s, a, "start") EXCEPT !.fwSet = @ \cup {a}]
    IN  Log(on_ready(on_view(on_launch(s0, a), a), a), a, "start_ret")

stop(s, a) == Log(on_exit(on_hide(Log(s, a, "stop"), a), a), a, "stop_ret")

pause(s, a) == Log(on_hide(Log(s, a, "pause"), a), a, "pause_ret")

resume(s, a) == Log(on_ready(Log(s, a, "resume"), a), a, "resume_ret")

\* ================================================================ Framework
install_launcher(s, a) == [s EXCEPT !.launcher = a]

\* the mutant appends before on_install() has returned
install_append_first(s, a) == app_install(AppendApp(s, a), a)

install(s, a) ==
    LET s1 == app_install(s, a) IN
    IF Raised(s1) THEN s1 ELSE AppendApp(s1, a)

\* the mutant appends the instance to the list before install() has returned
_load_app_append_first(s, path) ==
    IF PathKind(path) = "bad" THEN [Log(s, FW, "load_failed") EXCEPT !.ret = None]
    ELSE IF s.fault = "import"
    THEN [Log(Log(s, FW, "import"), FW, "load_failed") EXCEPT !.ret = None]
    ELSE LET a  == <<path, s.gen>>
             s0 == Log(s, FW, "import")
             s1 == app_install(IF Contains(s0.apps, a) THEN s0 ELSE AppendApp(s0, a), a)
         IN  IF Raised(s1)
             THEN [Log(s1, FW, "load_failed") EXCEPT !.pc = s.pc, !.ret = None]
             ELSE [s1 EXCEPT !.cache[path] = a, !.ret = a]

\* _load_app: a failed import, a module without an AppBase subclass, a raising
\* constructor or a raising on_install() gives None (the try block catches
\* every exception); otherwise the new instance is installed, cached and
\* appended to Framework._apps unless it is already there.  The result is in
\* s.ret.
_load_app(s, path) ==
    IF PathKind(path) = "bad" THEN [Log(s, FW, "load_failed") EXCEPT !.ret = None]
    ELSE IF s.fault = "import"
    THEN [Log(Log(s, FW, "import"), FW, "load_failed") EXCEPT !.ret = None]
    ELSE LET a  == <<path, s.gen>>
             s1 == app_install(Log(s, FW, "import"), a)
         IN  IF Raised(s1)
             THEN [Log(s1, FW, "load_failed") EXCEPT !.pc = s.pc, !.ret = None]
             ELSE LET s2 == [s1 EXCEPT !.cache[path] = a]
                      s3 == IF Contains(s2.apps, a) THEN s2 ELSE AppendApp(s2, a)
                  IN  [s3 EXCEPT !.ret = a]

\* the mutant never looks into the cache
get_or_load_app_no_cache(s, path) == _load_app(s, path)

get_or_load_app(s, path) ==
    IF s.cache[path] # None THEN [s EXCEPT !.ret = s.cache[path]]
    ELSE _load_app(s, path)

\* the mutant filters the list in place, so the selector's list shrinks too
clear_app_cache_in_place(s) ==
    LET s1 == ClearInstances(s)
    IN  [s1 EXCEPT !.scanned = FALSE,
                   !.apps = SelectSeq(s.apps, LAMBDA x : x = s.launcher),
                   !.selApps = IF s.aliased
                               THEN SelectSeq(s.selApps, LAMBDA x : x = s.launcher)
                               ELSE @]

\* self._apps = [...] binds Framework._apps to a new list object; the
\* AppSelector keeps the list it was constructed with.
clear_app_cache(s) ==
    LET s1 == ClearInstances(s)
    IN  [s1 EXCEPT !.scanned = FALSE,
                   !.apps = SelectSeq(s.apps, LAMBDA x : x = s.launcher),
                   !.aliased = FALSE]

unload(s, app) == stop(s, app)

load(s, app) == start(s, app)

reload(s, app) == start(stop(s, app), app)

launch_app(s, app) ==
    IF ~CurrentOk(s) THEN Raise(s, "IndexError")
    ELSE LET cur == Current(s)
             s1  == stop(Log(s, app, "launch_app"), cur)
             s2  == Select(s1, app)
         IN  IF Raised(s2) THEN s2 ELSE start(s2, app)

\* the mutant leaves the loop flag set in standalone mode
return_to_launcher_keeps_running(s) ==
    LET s0 == Log(s, FW, "return_to_launcher") IN
    IF ~CurrentOk(s) THEN Raise(s0, "IndexError")
    ELSE LET cur == Current(s) IN
         IF s.launcher = None
         THEN stop(s0, cur)
         ELSE IF cur # s.launcher
              THEN LET s1 == stop(s0, cur)
                       s2 == Select(s1, s.launcher)
                   IN  IF Raised(s2) THEN s2 ELSE start(s2, s.launcher)
              ELSE s0

return_to_launcher_unguarded(s) ==
    LET s0 == Log(s, FW, "return_to_launcher") IN
    IF ~CurrentOk(s) THEN Raise(s0, "IndexError")
    ELSE LET cur == Current(s) IN
         IF s.launcher = None
         THEN [stop(s0, cur) EXCEPT !.running = FALSE]
         ELSE LET s1 == stop(s0, cur)
                  s2 == Select(s1, s.launcher)
              IN  IF Raised(s2) THEN s2 ELSE start(s2, s.launcher)

return_to_launcher(s) ==
    LET s0 == Log(s, FW, "return_to_launcher") IN
    IF ~CurrentOk(s) THEN Raise(s0, "IndexError")
    ELSE LET cur == Current(s) IN
         IF s.launcher = None
         THEN [stop(s0, cur) EXCEPT !.running = FALSE]
         ELSE IF cur # s.launcher
              THEN LET s1 == stop(s0, cur)
                       s2 == Select(s1, s.launcher)
                   IN  IF Raised(s2) THEN s2 ELSE start(s2, s.launcher)
              ELSE s0

\* ================================================================= Launcher
\* _launch_app: load, then launch; when the load fails the error screen polls
\* the keyboard for up to five seconds (wait_key), takes the key the user
\* presses in that time out of the keyboard (get_key), and the menu is redrawn.
_launch_app(s, path) ==
    LET s1 == get_or_load_app(s, path) IN
    IF s1.ret # None THEN launch_app(s1, s1.ret)
    ELSE LET s2 == Log(s1, LauncherInst, "wait_key")
             s3 == IF s.pressed THEN Log(s2, LauncherInst, "get_key") ELSE s2
         IN  _draw_menu(s3)

_do_reload(s) ==
    LET s1 == scan_apps(clear_app_cache(Log(s, LauncherInst, "reload")), TRUE)
        s2 == [s1 EXCEPT !.lreg = s1.registry, !.lstack = <<>>,
                         !.lsel = 0, !.lscroll = 0]
    IN  _draw_menu(s2)

\* ESC in a submenu: go back to the parent
_menu_pop_to_top(s) ==
    LET top == s.lstack[Len(s.lstack)]
        s1  == [Log(s, LauncherInst, "pop") EXCEPT
                   !.evStatus = TRUE,
                   !.lstack = SubSeq(@, 1, Len(@) - 1),
                   !.lreg = top.reg,
                   !.lsel = top.sel,
                   !.lscroll = 0]
    IN  _draw_menu(s1)

_menu_pop(s) ==
    LET top == s.lstack[Len(s.lstack)]
        s1  == [Log(s, LauncherInst, "pop") EXCEPT
                   !.evStatus = TRUE,
                   !.lstack = SubSeq(@, 1, Len(@) - 1),
                   !.lreg = top.reg,
                   !.lsel = top.sel,
                   !.lscroll = top.scroll]
    IN  _draw_menu(s1)

\* Enter on a submenu entry: descend into it
_menu_push(s, node) ==
    _draw_menu([Log(s, LauncherInst, "push") EXCEPT
                   !.lstack = Append(@, [reg |-> s.lreg, sel |-> s.lsel,
                                         scroll |-> s.lscroll]),
                   !.lreg = node,
                   !.lsel = 0,
                   !.lscroll = 0])

launcher_kb_event_handler(s) ==
    LET key     == s.evKey
        entries == _get_menu_entries(s)
    IN
    IF key = KEY_R /\ s.runMode = "remote"
    THEN _do_reload([s EXCEPT !.evStatus = TRUE])
    ELSE IF key = KEYCODE_ESC
    THEN IF Len(s.lstack) > 0 THEN _menu_pop(s) ELSE s
    ELSE IF Len(entries) = 0 THEN s
    ELSE IF key = KEYCODE_ENTER
    THEN LET s1 == [s EXCEPT !.evStatus = TRUE] IN
         IF s.lsel >= Len(entries) THEN Raise(s1, "IndexError")
         ELSE LET e == entries[s.lsel + 1] IN
              IF e.type = "submenu" THEN _menu_push(s1, e.key)
              ELSE _launch_app(s1, e.key)
    ELSE IF key = KEY_SEMICOLON \/ key = KEYCODE_UP
    THEN _draw_menu([s EXCEPT !.evStatus = TRUE,
                              !.lsel = (@ - 1) % Len(entries)])
    ELSE IF key = KEY_PERIOD \/ key = KEYCODE_DOWN
    THEN _draw_menu([s EXCEPT !.evStatus = TRUE,
                              !.lsel = (@ + 1) % Len(entries)])
    ELSE s

\* The key handler of any other app: it may consume the key (set
\* event.status), leave it, or raise.
app_kb_event_handler(s, outcome) ==
    IF outcome = "consume" THEN [s EXCEPT !.evStatus = TRUE]
    ELSE IF outcome = "raise" THEN Raise(s, "handler")
    ELSE s

HandlerOutcomes == {"ignore", "consume", "raise"}

Faults == {"none", "import", "on_install"}

\* hasattr(app, "_kb_event_handler")
HasHandler(a) == Kind(a) # "bare"

\* await app._kb_event_handler(event, self): the entry in the trace tells
\* whether the event came in already marked handled
deliver(s, app) == Log(s, app, IF s.evStatus THEN "handler_stale" ELSE "handler")

\* ================================================================ Framework
\* the mutant catches what the handler raises
handle_input_catches(s, outcome) ==
    IF ~CurrentOk(s) THEN Raise(s, "IndexError")
    ELSE LET app == Current(s)
             s1  == IF HasHandler(app)
                    THEN IF Kind(app) = "launcher"
                         THEN launcher_kb_event_handler(deliver(s, app))
                         ELSE app_kb_event_handler(deliver(s, app), outcome)
                    ELSE s
             s2  == [s1 EXCEPT !.pc = s.pc]
         IN  IF s2.evStatus = FALSE /\ s2.evKey = KEYCODE_ESC
             THEN return_to_launcher(s2)
             ELSE s2

handle_input_ignores_status(s, outcome) ==
    IF ~CurrentOk(s) THEN Raise(s, "IndexError")
    ELSE LET app == Current(s)
             s1  == IF HasHandler(app)
                    THEN IF Kind(app) = "launcher"
                         THEN launcher_kb_event_handler(deliver(s, app))
                         ELSE app_kb_event_handler(deliver(s, app), outcome)
                    ELSE s
         IN  IF Raised(s1) THEN s1
             ELSE IF s1.evKey = KEYCODE_ESC
                  THEN return_to_launcher(s1)
                  ELSE s1

handle_input(s, outcome) ==
    IF ~CurrentOk(s) THEN Raise(s, "IndexError")
    ELSE LET app == Current(s)
             s1  == IF HasHandler(app)
                    THEN IF Kind(app) = "launcher"
                         THEN launcher_kb_event_handler(deliver(s, app))
                         ELSE app_kb_event_handler(deliver(s, app), outcome)
                    ELSE s
         IN  IF Raised(s1) THEN s1
             ELSE IF s1.evStatus = FALSE /\ s1.evKey = KEYCODE_ESC
                  THEN return_to_launcher(s1)
                  ELSE s1

\* one iteration of the main loop in which kb.is_pressed() is true
run_iteration_keeps_status(s, key, outcome) ==
    handle_input([s EXCEPT !.evKey = key], outcome)

run_iteration(s, key, outcome) ==
    handle_input([s EXCEPT !.evKey = key, !.evStatus = FALSE], outcome)

\* run(), up to the main loop
run_start(s) ==
    LET s1 == IF s.launcher # None
              THEN LET s2 == Select(s, s.launcher)
                   IN  IF Raised(s2) THEN s2 ELSE start(s2, s.launcher)
              ELSE IF Len(s.apps) > 0
                   THEN LET s2 == Select(s, s.apps[1])
                        IN  IF Raised(s2) THEN s2 ELSE start(s2, s.apps[1])
                   ELSE s
    IN  IF Raised(s1) THEN s1 ELSE [s1 EXCEPT !.running = TRUE, !.pc = "run"]

\* ============================================================== SettingsApp
\* settings holds the fields of the one SettingsApp instance the framework
\* caches, the brightness of the LCD, whether SettingsApp is the current app,
\* event.status of the last key and log, the methods the last step called.
\* The KEY_NAV_* codes settings_app.py imports are not defined by
\* lib/keycode.py in this tree; the keys drawn below are none of them, and the
\* branches that test for them are left out.  The Sound, System and About
\* tabs change none of the fields kept here.
KEYCODE_BACKSPACE == 8
HID_TAB           == 43
KEY_DIGIT_0       == 48
KEY_DIGIT_1       == 49
KEY_LOWER_S       == 115
TAB_WIFI          == 0
TAB_DISPLAY       == 1
TAB_COUNT         == 5      \* len(TAB_NAMES)
BRIGHTNESS_NEW    == 128    \* _brightness and _brightness_saved of __init__
BRIGHTNESS_PRESET == 64     \* the preset of key 1
LCD_BOOT          == 80     \* the brightness the host program sets

SettingsNew ==
    [cur |-> FALSE, _current_tab |-> TAB_WIFI,
     _brightness |-> BRIGHTNESS_NEW, _brightness_saved |-> BRIGHTNESS_NEW,
     lcd |-> LCD_BOOT, _wifi_networks |-> <<>>, _wifi_selected |-> 0,
     _wifi_input_mode |-> FALSE, _wifi_password |-> <<>>,
     status |-> FALSE, log |-> <<>>]

SLog(t, what) == [t EXCEPT !.log = Append(@, what)]

_switch_tab(t, direction) ==
    SLog([t EXCEPT !._current_tab = (@ + direction) % TAB_COUNT], "_switch_tab")

_wifi_scan(t, found) ==
    SLog([t EXCEPT !._wifi_networks = found, !._wifi_selected = 0], "_wifi_scan")

_do_wifi_connect(t) ==
    SLog([t EXCEPT !._wifi_input_mode = FALSE], "_do_wifi_connect")

_wifi_connect(t) ==
    IF t._wifi_networks = <<>> \/ t._wifi_selected >= Len(t._wifi_networks)
    THEN t
    ELSE IF t._wifi_networks[t._wifi_selected + 1] = 0
         THEN _do_wifi_connect(t)
         ELSE SLog([t EXCEPT !._wifi_password = <<>>,
                             !._wifi_input_mode = TRUE], "_wifi_connect")

_handle_wifi_keys(t, key, found) ==
    IF t._wifi_input_mode
    THEN IF key = KEYCODE_ESC
         THEN SLog([t EXCEPT !._wifi_input_mode = FALSE,
                             !._wifi_password = <<>>], "cancel_input")
         ELSE IF key = KEYCODE_BACKSPACE
         THEN IF t._wifi_password # <<>>
              THEN [t EXCEPT !._wifi_password = SubSeq(@, 1, Len(@) - 1)]
              ELSE t
         ELSE IF key = KEYCODE_ENTER
         THEN _do_wifi_connect(t)
         ELSE IF 32 <= key /\ key <= 126
         THEN [t EXCEPT !._wifi_password = Append(@, key)]
         ELSE t
    ELSE IF key = KEY_LOWER_S
         THEN _wifi_scan(t, found)
         ELSE IF key = KEYCODE_ENTER
         THEN IF t._wifi_networks # <<>> THEN _wifi_connect(t) ELSE t
         ELSE t

_set_brightness(t, value) ==
    LET clamped == IF value < 0 THEN 0 ELSE IF value > 255 THEN 255 ELSE value
    IN  [t EXCEPT !._brightness = clamped, !.lcd = clamped]

_screen_off(t) == SLog([t EXCEPT !.lcd = 0], "_screen_off")

_save_brightness(t) ==
    SLog([t EXCEPT !._brightness_saved = t._brightness], "_save_brightness")

_handle_display_keys(t, key) ==
    IF key = KEY_DIGIT_1 THEN SLog(_set_brightness(t, BRIGHTNESS_PRESET), "preset")
    ELSE IF key = KEY_DIGIT_0 THEN _screen_off(t)
    ELSE IF key = KEY_LOWER_S THEN _save_brightness(t)
    ELSE t

settings_kb_event_handler(t, key, found) ==
    IF key = KEYCODE_ESC
    THEN t
    ELSE IF t._brightness = 0 /\ t._current_tab = TAB_DISPLAY
    THEN [SLog(_set_brightness(t, IF t._brightness_saved # 0
                                  THEN t._brightness_saved
                                  ELSE BRIGHTNESS_NEW), "wake")
             EXCEPT !.status = TRUE]
    ELSE IF key = HID_TAB
    THEN [_switch_tab(t, 1) EXCEPT !.status = TRUE]
    ELSE IF t._current_tab = TAB_WIFI
    THEN [_handle_wifi_keys(t, key, found) EXCEPT !.status = TRUE]
    ELSE IF t._current_tab = TAB_DISPLAY
    THEN [_handle_display_keys(t, key) EXCEPT !.status = TRUE]
    ELSE [t EXCEPT !.status = TRUE]

\* Framework.run and handle_input with SettingsApp current: the loop clears
\* event.status, the handler runs, and an unhandled ESC returns to the launcher
settings_handle_input(t, key, found) ==
    LET t1 == settings_kb_event_handler(
                  [t EXCEPT !.status = FALSE, !.log = <<>>], key, found)
    IN  IF ~t1.status /\ key = KEYCODE_ESC
        THEN SLog([t1 EXCEPT !.cur = FALSE], "return_to_launcher")
        ELSE t1

\* ==================================================================== uftpd
\* ftp holds the module globals of uftpd (read_only, auth_enabled, auth_user,
\* auth_password, client_busy), the fields of one FTP_client (connected,
\* logged_in, _auth_user, cwd, fromname) and the files (fs).  Four fields are
\* not program state: lastUser is the payload of the connection's last USER
\* command, presented tells whether the connection has sent the configured
\* user name and then the configured password, path is the path the last
\* command resolved and log the replies it sent.
\* A path is the sequence of its names, "/" the empty sequence.  A payload is
\* the text after the command: abs tells whether it starts with "/", toks is
\* payload.split("/").
NoPath == <<"None">>

\* the paths the file system can hold: at most FsDepth names
FsPaths == UNION {[1..n -> {"system", "flash", "f"}] : n \in 1..FsDepth}

protected_paths == {<<"system">>}

FtpPayloads ==
    {[abs |-> FALSE, toks |-> <<"f">>],
     [abs |-> TRUE,  toks |-> <<"", "system", "f">>],
     [abs |-> FALSE, toks |-> <<"..", "system", ".", "f">>],
     [abs |-> TRUE,  toks |-> <<"", "flash">>],
     [abs |-> TRUE,  toks |-> <<"", "system", "">>]}

WriteCommands == {"STOR", "APPE", "DELE", "RNFR", "RNTO", "RMD", "MKD"}

\* the files at start: /flash and /system are directories, /system/f a file
FtpNew ==
    [read_only |-> FALSE, auth_enabled |-> FALSE, auth_user |-> "ftp",
     auth_password |-> "cardputer", client_busy |-> FALSE,
     connected |-> FALSE, logged_in |-> FALSE, _auth_user |-> None,
     cwd |-> <<>>, fromname |-> NoPath,
     fs |-> [p \in FsPaths |->
                IF p \in {<<"flash">>, <<"system">>} THEN "dir"
                ELSE IF p = <<"system", "f">> THEN "file"
                ELSE "none"],
     lastUser |-> None, presented |-> FALSE, path |-> <<>>, log |-> <<>>]

set_read_only(f, enabled) == [f EXCEPT !.read_only = enabled]

set_auth(f, enabled, user, password) ==
    [f EXCEPT !.auth_enabled = enabled,
              !.auth_user = IF user # None THEN user ELSE @,
              !.auth_password = IF password # None THEN password ELSE @]

\* is_path_protected_exact is is_path_protected without the startswith test
is_path_protected_exact(path) == path \in protected_paths

is_path_protected(path) ==
    \E protected \in protected_paths :
        \/ path = protected
        \/ /\ Len(path) > Len(protected)
           /\ SubSeq(path, 1, Len(protected)) = protected

is_write_allowed(f, path) ==
    IF is_path_protected(path) THEN FALSE ELSE ~f.read_only

FTP_client_init(f) ==
    [f EXCEPT !.connected = TRUE, !.cwd = <<>>, !.fromname = NoPath,
              !.logged_in = FALSE, !._auth_user = None,
              !.lastUser = None, !.presented = FALSE,
              !.path = <<>>, !.log = <<"220">>]

split_path(path) ==
    IF path = <<>> THEN <<<<>>, "">>
    ELSE <<SubSeq(path, 1, Len(path) - 1), path[Len(path)]>>

RECURSIVE get_absolute_path_from(_, _)
get_absolute_path_from(cwd, toks) ==
    IF toks = <<>> THEN cwd
    ELSE LET token == Head(toks)
         IN  get_absolute_path_from(
                 IF token = ".." THEN split_path(cwd)[1]
                 ELSE IF token # "." /\ token # "" THEN Append(cwd, token)
                 ELSE cwd,
                 Tail(toks))

get_absolute_path(cwd, payload) ==
    get_absolute_path_from(IF payload.abs THEN <<>> ELSE cwd, payload.toks)

close_client(f) == [f EXCEPT !.connected = FALSE]

\* uos: what a path is, and whether a directory has entries
FsKind(f, path) ==
    IF path = <<>> THEN "dir"
    ELSE IF path \in FsPaths THEN f.fs[path] ELSE "none"

FsHasEntries(f, path) ==
    \E q \in FsPaths : /\ Len(q) > Len(path)
                       /\ SubSeq(q, 1, Len(path)) = path
                       /\ f.fs[q] # "none"

FsCanCreate(f, path) ==
    /\ path \in FsPaths
    /\ FsKind(f, split_path(path)[1]) = "dir"

Reply(f, code) == [f EXCEPT !.log = Append(@, code)]

\* open(path, mode) and the writes of save_file_data
save_file_data(f, path) ==
    IF FsCanCreate(f, path) /\ FsKind(f, path) # "dir"
    THEN Reply([Reply(f, "150") EXCEPT !.fs[path] = "file"], "226")
    ELSE Reply(Reply(f, "150"), "550")

uos_remove(f, path) ==
    IF FsKind(f, path) = "file"
    THEN Reply([f EXCEPT !.fs[path] = "none"], "250")
    ELSE Reply(f, "550")

uos_rmdir(f, path) ==
    IF path # <<>> /\ FsKind(f, path) = "dir" /\ ~FsHasEntries(f, path)
    THEN Reply([f EXCEPT !.fs[path] = "none"], "250")
    ELSE Reply(f, "550")

uos_mkdir(f, path) ==
    IF FsCanCreate(f, path) /\ FsKind(f, path) = "none"
    THEN Reply([f EXCEPT !.fs[path] = "dir"], "250")
    ELSE Reply(f, "550")

\* uos.rename(fromname, path); a directory with entries is not moved
uos_rename(f, path) ==
    IF /\ f.fromname # NoPath
       /\ f.fromname # <<>>
       /\ FsKind(f, f.fromname) # "none"
       /\ ~FsHasEntries(f, f.fromname)
       /\ FsCanCreate(f, path)
       /\ FsKind(f, path) = "none"
    THEN Reply([f EXCEPT !.fs[path] = f.fs[f.fromname],
                         !.fs[f.fromname] = "none"], "250")
    ELSE Reply(f, "550")

\* exec_ftp_command for one line "command payload"; the reply of a write
\* command that is not allowed is 550 with either text.  word is the payload of
\* USER and PASS, payload the payload of the commands that take a path
exec_ftp_command(f0, command, word, payload) ==
    LET path == get_absolute_path(f0.cwd, payload)
        f == [f0 EXCEPT !.log = <<>>, !.path = path,
                        !.lastUser = IF command = "USER" THEN word ELSE @,
                        !.presented =
                            \/ @
                            \/ /\ command = "PASS"
                               /\ f0.lastUser = f0.auth_user
                               /\ word = f0.auth_password]
    IN
    IF f.client_busy THEN Reply(f, "400")
    ELSE IF /\ f.auth_enabled
            /\ ~f.logged_in
            /\ command \notin {"USER", "PASS", "QUIT"}
    THEN Reply(f, "530")
    ELSE IF command = "USER"
    THEN IF f.auth_enabled
         THEN Reply([f EXCEPT !._auth_user = word], "331")
         ELSE Reply([f EXCEPT !.logged_in = TRUE], "230")
    ELSE IF command = "PASS"
    THEN IF f.auth_enabled
         THEN IF /\ f._auth_user # None
                 /\ f._auth_user = f.auth_user
                 /\ word = f.auth_password
              THEN Reply([f EXCEPT !.logged_in = TRUE], "230")
              ELSE Reply(f, "530")
         ELSE Reply([f EXCEPT !.logged_in = TRUE], "230")
    ELSE IF command = "QUIT"
    THEN close_client(Reply(f, "221"))
    ELSE IF command = "PWD"
    THEN Reply(f, "257")
    ELSE IF command = "CWD"
    THEN IF FsKind(f, path) = "dir"
         THEN Reply([f EXCEPT !.cwd = path], "250")
         ELSE Reply(f, "550")
    ELSE IF command \in {"STOR", "APPE"}
    THEN IF ~is_write_allowed(f, path) THEN Reply(f, "550")
         ELSE save_file_data(f, path)
    ELSE IF command = "DELE"
    THEN IF ~is_write_allowed(f, path) THEN Reply(f, "550")
         ELSE uos_remove(f, path)
    ELSE IF command = "RNFR"
    THEN IF ~is_write_allowed(f, path) THEN Reply(f, "550")
         ELSE IF FsKind(f, path) # "none"
              THEN Reply([f EXCEPT !.fromname = path], "350")
              ELSE Reply(f, "550")
    ELSE IF command = "RNTO"
    THEN IF ~is_write_allowed(f, path) THEN Reply(f, "550")
         ELSE [uos_rename(f, path) EXCEPT !.fromname = NoPath]
    ELSE IF command = "CDUP"
    THEN Reply([f EXCEPT !.cwd = get_absolute_path_from(f.cwd, <<"..">>)],
               "250")
    ELSE IF command = "RMD"
    THEN IF ~is_write_allowed(f, path) THEN Reply(f, "550")
         ELSE uos_rmdir(f, path)
    ELSE IF command = "MKD"
    THEN IF ~is_write_allowed(f, path) THEN Reply(f, "550")
         ELSE uos_mkdir(f, path)
    ELSE Reply(f, "502")

\* ================================================================ SoundDemo
\* sound holds the one SoundDemo instance the framework caches: whether it is
\* the current app, _playing_demo, and the demo tasks it created that have
\* not finished.  A task is at a sleep point: pc names the loop and i the
\* iteration ("new": created and not run yet).  Two fields are not program
\* state: esc of a task tells whether ESCAPE was dispatched while the task
\* existed, and log is what the last step drew and played.
KEY_LOWER_E  == 101
SCALE_UP     == 8      \* notes of the ascending loop
SCALE_DOWN   == 7      \* notes of the descending loop
SWEEP_STEPS  == 16     \* len(range(200, 1000, 50))
ALERT_BEEPS  == 3
JINGLE_NOTES == 3

SoundNew ==
    [cur |-> FALSE, _playing_demo |-> FALSE, tasks |-> <<>>,
     status |-> FALSE, log |-> <<>>]

\* what one run of a task from a sleep point to the next leaves: whether the
\* task is still alive, where it sleeps, _playing_demo, and what it drew and
\* played
Slept(t, at, i, playing, ev) ==
    [alive |-> TRUE, task |-> [t EXCEPT !.pc = at, !.i = i],
     playing |-> playing, ev |-> ev]

Finished(t, ev) ==
    [alive |-> FALSE, task |-> t, playing |-> FALSE, ev |-> ev]

scale_descending(t, playing, ev, n) ==
    IF n > SCALE_DOWN \/ ~playing
    THEN Finished(t, Append(ev, "draw"))
    ELSE Slept(t, "desc", n, playing, ev \o <<"draw", "tone">>)

scale_ascending(t, playing, ev, n) ==
    IF n > SCALE_UP \/ ~playing
    THEN scale_descending(t, playing, ev, 1)
    ELSE Slept(t, "asc", n, playing, ev \o <<"draw", "tone">>)

_play_scale(t, playing) ==
    IF t.pc = "new" THEN scale_ascending(t, TRUE, <<>>, 1)
    ELSE IF t.pc = "asc" THEN scale_ascending(t, playing, <<>>, t.i + 1)
    ELSE scale_descending(t, playing, <<>>, t.i + 1)

effects_jingle(t, playing, ev, n) ==
    IF n > JINGLE_NOTES \/ ~playing
    THEN Finished(t, Append(ev, "draw"))
    ELSE Slept(t, "jingle", n, playing, Append(ev, "tone"))

effects_alert(t, playing, ev, n) ==
    IF n > ALERT_BEEPS \/ ~playing
    THEN Slept(t, "gap3", 0, playing, ev)
    ELSE Slept(t, "alert_a", n, playing, Append(ev, "tone"))

effects_falling(t, playing, ev, n) ==
    IF n > SWEEP_STEPS \/ ~playing
    THEN Slept(t, "gap2", 0, playing, ev)
    ELSE Slept(t, "fall", n, playing, Append(ev, "tone"))

effects_rising(t, playing, ev, n) ==
    IF n > SWEEP_STEPS \/ ~playing
    THEN Slept(t, "gap1", 0, playing, ev)
    ELSE Slept(t, "rise", n, playing, Append(ev, "tone"))

_play_effects(t, playing) ==
    IF t.pc = "new" THEN effects_rising(t, TRUE, <<"draw">>, 1)
    ELSE IF t.pc = "rise" THEN effects_rising(t, playing, <<>>, t.i + 1)
    ELSE IF t.pc = "gap1" THEN effects_falling(t, playing, <<"draw">>, 1)
    ELSE IF t.pc = "fall" THEN effects_falling(t, playing, <<>>, t.i + 1)
    ELSE IF t.pc = "gap2" THEN effects_alert(t, playing, <<"draw">>, 1)
    ELSE IF t.pc = "alert_a"
    THEN Slept(t, "alert_b", t.i, playing, <<"tone">>)
    ELSE IF t.pc = "alert_b" THEN effects_alert(t, playing, <<>>, t.i + 1)
    ELSE IF t.pc = "gap3" THEN effects_jingle(t, playing, <<"draw">>, 1)
    ELSE effects_jingle(t, playing, <<>>, t.i + 1)

\* the scheduler resumes task k
sound_task_run(d, k) ==
    LET t == d.tasks[k]
        r == IF t.kind = "scale" THEN _play_scale(t, d._playing_demo)
             ELSE _play_effects(t, d._playing_demo)
    IN  [d EXCEPT !._playing_demo = r.playing,
                  !.tasks = IF r.alive THEN [@ EXCEPT ![k] = r.task]
                            ELSE SubSeq(@, 1, k - 1) \o
                                 SubSeq(@, k + 1, Len(@)),
                  !.log = r.ev]

sound_kb_event_handler(d, key) ==
    IF key = KEYCODE_ESC
    THEN [d EXCEPT !._playing_demo = FALSE]
    ELSE IF key = KEY_LOWER_S
    THEN [d EXCEPT !.tasks = IF ~d._playing_demo
                             THEN Append(@, [kind |-> "scale", pc |-> "new",
                                             i |-> 0, esc |-> FALSE])
                             ELSE @,
                   !.status = TRUE]
    ELSE IF key = KEY_LOWER_E
    THEN [d EXCEPT !.tasks = IF ~d._playing_demo
                             THEN Append(@, [kind |-> "effects", pc |-> "new",
                                             i |-> 0, esc |-> FALSE])
                             ELSE @,
                   !.status = TRUE]
    ELSE [d EXCEPT !.status = TRUE]

\* Framework.run and handle_input with SoundDemo current; return_to_launcher
\* stops the app, which cancels its on_run task and no demo task
sound_handle_input(d, key) ==
    LET d1 == sound_kb_event_handler(
                  [d EXCEPT !.status = FALSE, !.log = <<>>,
                            !.tasks = IF key = KEYCODE_ESC
                                      THEN [k \in 1..Len(@) |->
                                               [@[k] EXCEPT !.esc = TRUE]]
                                      ELSE @], key)
    IN  IF ~d1.status /\ key = KEYCODE_ESC
        THEN [d1 EXCEPT !.cur = FALSE]
        ELSE d1

\* ========================================================= main.py launcher
\* menu holds the globals of main.py: apps (the display entries load_apps
\* built, each named by its module), selected, scroll_offset and launch_app
\* (the module whose class was instantiated, or None).  phase tells whether
\* the program has loaded the apps yet; importable is the set of modules whose
\* import gives the class; drawn is the entry draw_menu printed with the
\* "> " prefix and log what the last step did.
APP_REGISTRY ==
    <<"hello_world", "notepad", "demo_anim", "demo_text", "demo_sound",
      "demo_keyboard", "demo_lcd", "demo_widgets", "demo_nvs">>

KEYCODE_LINEFEED == 10

MenuNew ==
    [phase |-> "boot", importable |-> {}, apps |-> <<>>, selected |-> 0,
     scroll_offset |-> 0, launch_app |-> None, drawn |-> None, log |-> <<>>]

load_apps(importable) ==
    SelectSeq(APP_REGISTRY, LAMBDA name : name \in importable)

draw_menu(m) ==
    LET offset == IF m.selected < m.scroll_offset THEN m.selected
                  ELSE IF m.selected >= m.scroll_offset + VISIBLE_ITEMS
                  THEN m.selected - VISIBLE_ITEMS + 1
                  ELSE m.scroll_offset
        shown == {idx \in offset..(offset + VISIBLE_ITEMS - 1) :
                      idx < Len(m.apps)}
    IN  [m EXCEPT !.scroll_offset = offset,
                  !.drawn = IF m.selected \in shown
                            THEN m.apps[m.selected + 1] ELSE None]

\* one key event of menu_key_handler
menu_key_handler(m0, key) ==
    LET m == [m0 EXCEPT !.log = <<>>]
    IN
    IF key = 0 \/ key > 127 THEN m
    ELSE IF key = KEYCODE_ENTER \/ key = KEYCODE_LINEFEED
    THEN LET module_name == APP_REGISTRY[m.selected + 1]
         IN  IF module_name \in m.importable
             THEN [m EXCEPT !.launch_app = module_name,
                            !.log = <<"instantiate", module_name>>]
             ELSE [m EXCEPT !.log = <<"error", module_name>>]
    ELSE IF key \in {KEY_SEMICOLON, KEY_PERIOD}
    THEN IF Len(m.apps) = 0
         THEN [m EXCEPT !.log = <<"raise", "ZeroDivisionError">>]
         ELSE draw_menu([m EXCEPT !.selected =
                            (IF key = KEY_SEMICOLON THEN @ - 1 ELSE @ + 1)
                                % Len(m.apps)])
    ELSE m


\* ================================================================== actions
WithinBounds(s) ==
    /\ s.gen <= MaxGen
    /\ \A a \in Instances : s.live[a] <= MaxLive

Init ==
    /\ pc = "setup"
    /\ runMode \in RunModes
    /\ apps = <<>>
    /\ selApps = <<>>
    /\ aliased = TRUE
    /\ selId = 0
    /\ launcher = None
    /\ running = FALSE
    /\ cache = [p \in Paths |-> None]
    /\ scanned = FALSE
    /\ registry = None
    /\ gen = 0
    /\ task = [a \in Instances |-> FALSE]
    /\ live = [a \in Instances |-> 0]
    /\ fwSet = {}
    /\ lsel = 0
    /\ lscroll = 0
    /\ lstack = <<>>
    /\ lreg = None
    /\ evKey = 0
    /\ evStatus = FALSE
    /\ calls = 0
    /\ settings = SettingsNew
    /\ ftp = FtpNew
    /\ sound = SoundNew
    /\ menu = MenuNew
    /\ op = <<"init", None>>
    /\ trace = <<>>

\* fw.install_launcher(launcher)
InstallLauncher ==
    /\ pc = "setup"
    /\ launcher = None
    /\ Commit(install_launcher(St, LauncherInst))
    /\ op' = <<"install_launcher", LauncherInst>>

\* fw.install(app); the exception of a raising on_install() ends the host
\* program
Install(a, fault) ==
    /\ pc = "setup"
    /\ Len(apps) < MaxInstalls
    /\ Commit(install([St EXCEPT !.fault = fault], a))
    /\ op' = <<"install", a>>

\* fw.start(): run() up to its main loop
Run ==
    /\ pc = "setup"
    /\ Commit(run_start(St))
    /\ op' = <<"run", None>>

\* one iteration of the main loop in which the keyboard reports a key
Dispatch(key, outcome) ==
    /\ pc = "run"
    /\ running
    /\ outcome # "ignore" => CurrentOk(St) /\ Kind(Current(St)) \in {"plain", "srv"}
    /\ \E fault \in Faults, pressed \in BOOLEAN :
           \* faults and key presses matter only where the launcher loads an app
           /\ (fault # "none" \/ pressed) =>
                  /\ key = KEYCODE_ENTER
                  /\ CurrentOk(St)
                  /\ Kind(Current(St)) = "launcher"
           /\ LET s == run_iteration([St EXCEPT !.fault = fault,
                                              !.pressed = pressed], key, outcome)
              IN  /\ WithinBounds(s)
                  /\ Commit(s)
    /\ op' = <<"dispatch", key>>

\* the loop condition is found false: run() returns
RunReturn ==
    /\ pc = "run"
    /\ ~running
    /\ Commit([St EXCEPT !.pc = "exited"])
    /\ op' = <<"return", None>>

Next ==
    \/ InstallLauncher
    \/ \E a \in HostApps, fault \in {"none", "on_install"} : Install(a, fault)
    \/ Run
    \/ \E key \in Keys, outcome \in HandlerOutcomes : Dispatch(key, outcome)
    \/ RunReturn

Spec == Init /\ [][Next]_vars

\* The loop tests self._running after every iteration, so a cleared flag is
\* found and run() returns.
LiveSpec == Spec /\ WF_vars(RunReturn)

TypeOK ==
    /\ pc \in {"setup", "run", "exited", "crashed"}
    /\ selId \in 0..(MaxInstalls + Cardinality(Instances))
    /\ \A a \in Instances : live[a] \in 0..MaxLive

\* ====================================================== AppSelector on its own
\* The selector's methods called directly on a list built by install(): the
\* trace keeps the run of consecutive next()/prev() calls with the index each
\* started from; any other call ends the run.
SelNextCall ==
    /\ pc = "setup"
    /\ Len(selApps) >= 1
    /\ Len(trace) < MaxSelLen
    /\ selId' = next(selApps, selId)
    /\ trace' = Append(trace, <<"next", selId>>)
    /\ op' = <<"next", selId>>
    /\ UNCHANGED <<pc, runMode, apps, selApps, aliased, launcher, running, cache,
                   scanned, registry, gen, task, live, fwSet, lsel, lscroll,
                   lstack, lreg, evKey, evStatus, calls, settings, ftp, sound, menu>>

SelPrevCall ==
    /\ pc = "setup"
    /\ Len(selApps) >= 1
    /\ Len(trace) < MaxSelLen
    /\ selId' = prev(selApps, selId)
    /\ trace' = Append(trace, <<"prev", selId>>)
    /\ op' = <<"prev", selId>>
    /\ UNCHANGED <<pc, runMode, apps, selApps, aliased, launcher, running, cache,
                   scanned, registry, gen, task, live, fwSet, lsel, lscroll,
                   lstack, lreg, evKey, evStatus, calls, settings, ftp, sound, menu>>

SelIndexCall(i) ==
    /\ pc = "setup"
    /\ Len(selApps) >= 1
    /\ selId' = index(selApps, i)
    /\ trace' = <<>>
    /\ op' = <<"index", i>>
    /\ UNCHANGED <<pc, runMode, apps, selApps, aliased, launcher, running, cache,
                   scanned, registry, gen, task, live, fwSet, lsel, lscroll,
                   lstack, lreg, evKey, evStatus, calls, settings, ftp, sound, menu>>

\* selector.select(selector.current())
SelSelectCurrentCall ==
    /\ pc = "setup"
    /\ Len(selApps) >= 1
    /\ selId' = select(selApps, current(selApps, selId))
    /\ trace' = <<>>
    /\ op' = <<"select_current", selId>>
    /\ UNCHANGED <<pc, runMode, apps, selApps, aliased, launcher, running, cache,
                   scanned, registry, gen, task, live, fwSet, lsel, lscroll,
                   lstack, lreg, evKey, evStatus, calls, settings, ftp, sound, menu>>

\* fw.install(app), which appends to the list the selector reads
SelInstall(a) ==
    /\ pc = "setup"
    /\ Len(apps) < MaxInstalls
    /\ apps' = install(St, a).apps
    /\ selApps' = install(St, a).selApps
    /\ trace' = <<>>
    /\ op' = <<"install", 0>>
    /\ UNCHANGED <<pc, runMode, aliased, selId, launcher, running, cache,
                   scanned, registry, gen, task, live, fwSet, lsel, lscroll,
                   lstack, lreg, evKey, evStatus, calls, settings, ftp, sound, menu>>

SelNext ==
    \/ \E a \in HostApps : SelInstall(a)
    \/ SelNextCall
    \/ SelPrevCall
    \/ \E i \in (0 - 1)..(MaxInstalls + 1) : SelIndexCall(i)
    \/ SelSelectCurrentCall

SelSpec == Init /\ [][SelNext]_vars

\* ===================================================== the API called directly
\* The Framework's and the selector's methods called one after the other in
\* any order, as a host program or an app holding the framework may call them.
\* An exception that leaves a call ends the sequence.
Known == {a \in Instances : Contains(apps, a) \/ Contains(selApps, a)}

\* the modules the calls load: one that loads and one without an app class
ApiPaths == {"hello_world", "notepad"}

\* the state a call starts from, with what goes wrong during the call
Call(fault) == [St EXCEPT !.calls = @ + 1, !.fault = fault]

\* the value a call returned, as the last entry of the trace
LogRet(s) ==
    IF s.ret = None THEN Log(s, FW, "returned_none") ELSE Log(s, s.ret, "returned")

ApiReturn(s) ==
    /\ calls < MaxCalls
    /\ WithinBounds(s)
    /\ Commit(s)

ApiInstallLauncher ==
    /\ pc = "setup"
    /\ launcher = None
    /\ ApiReturn(install_launcher(Call("none"), LauncherInst))
    /\ op' = <<"install_launcher", LauncherInst>>

ApiInstall(a, fault) ==
    /\ pc = "setup"
    /\ Len(apps) < MaxInstalls
    /\ ApiReturn(install(Call(fault), a))
    /\ op' = <<"install", a>>

ApiGetOrLoad(path, fault) ==
    /\ pc = "setup"
    /\ fault # "none" => (cache[path] = None /\ PathKind(path) # "bad")
    /\ ApiReturn(LogRet(get_or_load_app(Call(fault), path)))
    /\ op' = <<"get_or_load_app", path>>

ApiClearCache ==
    /\ pc = "setup"
    /\ ApiReturn(clear_app_cache(Call("none")))
    /\ op' = <<"clear_app_cache", None>>

ApiLaunch(app) ==
    /\ pc = "setup"
    /\ app \in Known
    /\ ApiReturn(launch_app(Call("none"), app))
    /\ op' = <<"launch_app", app>>

ApiReturnToLauncher ==
    /\ pc = "setup"
    /\ ApiReturn(return_to_launcher(Call("none")))
    /\ op' = <<"return_to_launcher", None>>

\* next(), prev(), index(i): ZeroDivisionError on an empty list
ApiSelector(m, i) ==
    /\ pc = "setup"
    /\ IF Len(selApps) = 0
       THEN ApiReturn(Raise(Call("none"), "ZeroDivisionError"))
       ELSE ApiReturn([Call("none") EXCEPT
                          !.selId = CASE m = "next"  -> next(selApps, selId)
                                      [] m = "prev"  -> prev(selApps, selId)
                                      [] m = "index" -> index(selApps, i)])
    /\ op' = <<m, None>>

ApiSelect(app) ==
    /\ pc = "setup"
    /\ app \in Known
    /\ ApiReturn(Select(Call("none"), app))
    /\ op' = <<"select", app>>

ApiNext ==
    \/ ApiInstallLauncher
    \/ \E a \in HostApps, fault \in {"none", "on_install"} : ApiInstall(a, fault)
    \/ \E path \in ApiPaths, fault \in Faults : ApiGetOrLoad(path, fault)
    \/ ApiClearCache
    \/ \E app \in Instances : ApiLaunch(app)
    \/ ApiReturnToLauncher
    \/ \E m \in {"next", "prev"} : ApiSelector(m, 0)
    \/ \E i \in {0 - 1, MaxInstalls} : ApiSelector("index", i)
    \/ \E app \in Instances : ApiSelect(app)

ApiInit == Init /\ runMode = "flash"

ApiSpec == ApiInit /\ [][ApiNext]_vars

\* ================================================= lifecycle calls on an app
\* start(), stop(), pause() and resume() of an installed app and the
\* Framework's load(), unload() and reload() called in any order, together
\* with launch_app() and return_to_launcher().  A call is made while no app
\* has more than MaxLive un-cancelled tasks.
TaskReturn(s) ==
    /\ calls < MaxCalls
    /\ \A a \in Instances : live[a] <= MaxLive
    /\ Commit(s)

TaskCall(m, a) ==
    /\ pc = "setup"
    /\ a \in Known
    /\ TaskReturn(CASE m = "start"  -> start(Call("none"), a)
                    [] m = "stop"   -> stop(Call("none"), a)
                    [] m = "pause"  -> pause(Call("none"), a)
                    [] m = "resume" -> resume(Call("none"), a)
                    [] m = "load"   -> load(Call("none"), a)
                    [] m = "unload" -> unload(Call("none"), a)
                    [] m = "reload" -> reload(Call("none"), a))
    /\ op' = <<m, a>>

TaskMethods == {"start", "stop", "pause", "resume", "load", "unload", "reload"}

TaskNext ==
    \/ ApiInstallLauncher
    \/ \E a \in HostApps : ApiInstall(a, "none")
    \/ \E m \in TaskMethods, a \in HostApps : TaskCall(m, a)
    \/ \E app \in HostApps : ApiLaunch(app)
    \/ ApiReturnToLauncher

TaskSpec == ApiInit /\ [][TaskNext]_vars

\* ================================================== SettingsApp on its own
\* the variables of the framework model, which the programs below leave alone
fwVars == <<pc, runMode, apps, selApps, aliased, selId, launcher, running,
            cache, scanned, registry, gen, task, live, fwSet, lsel, lscroll,
            lstack, lreg, evKey, evStatus, trace>>

\* Framework.launch_app(settings) from the launcher: start() calls on_launch,
\* which reads the brightness of the LCD
SettingsLaunch ==
    /\ ~settings.cur
    /\ settings' = [settings EXCEPT !.cur = TRUE,
                                    !._brightness = settings.lcd,
                                    !._brightness_saved = settings.lcd,
                                    !.log = <<"on_launch">>]
    /\ op' = <<"settings_launch", 0>>
    /\ UNCHANGED <<fwVars, calls, ftp, sound, menu>>

\* found is what wlan.scan() finds when the key starts a scan: the security
\* field of each network
SettingsKey(key, found) ==
    /\ settings.cur
    /\ found # <<>> => /\ key = KEY_LOWER_S
                       /\ settings._current_tab = TAB_WIFI
                       /\ ~settings._wifi_input_mode
    /\ settings' = settings_handle_input(settings, key, found)
    /\ Len(settings'._wifi_password) <= MaxPassword
    /\ op' = <<"settings_key", key>>
    /\ UNCHANGED <<fwVars, calls, ftp, sound, menu>>

SettingsNext ==
    \/ SettingsLaunch
    \/ \E key \in {KEYCODE_ESC, KEYCODE_ENTER, KEYCODE_BACKSPACE, HID_TAB,
                     KEY_DIGIT_0, KEY_DIGIT_1, KEY_LOWER_S, KEY_OTHER},
          found \in {<<>>, <<0>>, <<3>>} : SettingsKey(key, found)

SettingsSpec == ApiInit /\ [][SettingsNext]_vars

\* ========================================================= uftpd on its own
\* Each step is one call: set_read_only or set_auth from the app, a client
\* that connects, or one command line of the connected client.
FtpReturn(f) ==
    /\ calls < MaxFtpCalls
    /\ calls' = calls + 1
    /\ ftp' = f
    /\ UNCHANGED <<fwVars, settings, sound, menu>>

FtpSetReadOnly(enabled) ==
    /\ FtpReturn([set_read_only(ftp, enabled) EXCEPT !.log = <<>>])
    /\ op' = <<"set_read_only", "">>

FtpSetAuth(enabled, user, password) ==
    /\ FtpReturn([set_auth(ftp, enabled, user, password) EXCEPT !.log = <<>>])
    /\ op' = <<"set_auth", "">>

FtpConnect ==
    /\ ~ftp.connected
    /\ FtpReturn(FTP_client_init(ftp))
    /\ op' = <<"accept_ftp_connect", "">>

FtpCommand(command, word, payload) ==
    /\ ftp.connected
    /\ FtpReturn(exec_ftp_command(ftp, command, word, payload))
    /\ op' = <<"exec_ftp_command", command>>

FtpNext ==
    \/ \E enabled \in BOOLEAN : FtpSetReadOnly(enabled)
    \/ \E enabled \in BOOLEAN, password \in {None, "secret"} :
           FtpSetAuth(enabled, None, password)
    \/ FtpConnect
    \/ \E word \in {"ftp", "anonymous"} :
           FtpCommand("USER", word, [abs |-> FALSE, toks |-> <<word>>])
    \/ \E word \in {"cardputer", "secret"} :
           FtpCommand("PASS", word, [abs |-> FALSE, toks |-> <<word>>])
    \/ \E command \in {"QUIT", "PWD", "CDUP"} :
           FtpCommand(command, "", [abs |-> FALSE, toks |-> <<"">>])
    \/ \E command \in WriteCommands \cup {"CWD"}, payload \in FtpPayloads :
           FtpCommand(command, "", payload)

FtpSpec == ApiInit /\ [][FtpNext]_vars

\* ====================================================== SoundDemo on its own
\* The main loop awaits sleep_ms(10) after every key, and a task created by
\* the handler runs to its first sleep point then: no key and no launch is
\* taken while a task is new.  Each key and each launch counts as a call.
NoNewTask == \A k \in 1..Len(sound.tasks) : sound.tasks[k].pc # "new"

SoundLaunch ==
    /\ ~sound.cur
    /\ NoNewTask
    /\ calls < MaxSoundCalls
    /\ calls' = calls + 1
    /\ sound' = [sound EXCEPT !.cur = TRUE, !.log = <<>>]
    /\ UNCHANGED <<fwVars, settings, ftp, menu>>
    /\ op' = <<"sound_launch", 0>>

SoundKey(key) ==
    /\ sound.cur
    /\ NoNewTask
    /\ calls < MaxSoundCalls
    /\ calls' = calls + 1
    /\ sound' = sound_handle_input(sound, key)
    /\ UNCHANGED <<fwVars, settings, ftp, menu>>
    /\ op' = <<"sound_key", key>>

SoundTaskRun(k) ==
    /\ k \in 1..Len(sound.tasks)
    /\ sound' = sound_task_run(sound, k)
    /\ UNCHANGED <<fwVars, calls, settings, ftp, menu>>
    /\ op' = <<"sound_task", k>>

SoundNext ==
    \/ SoundLaunch
    \/ \E key \in {KEYCODE_ESC, KEY_LOWER_S, KEY_LOWER_E, KEY_OTHER} :
           SoundKey(key)
    \/ \E k \in 1..MaxSoundCalls : SoundTaskRun(k)

SoundSpec == ApiInit /\ [][SoundNext]_vars

\* ================================================= main.py launcher on its own
\* the module body from load_apps() to the first draw_menu()
MenuStart(importable) ==
    /\ menu.phase = "boot"
    /\ menu' = draw_menu([menu EXCEPT !.phase = "menu",
                                      !.importable = importable,
                                      !.apps = load_apps(importable)])
    /\ op' = <<"menu_start", 0>>
    /\ UNCHANGED <<fwVars, calls, settings, ftp, sound>>

MenuKey(key) ==
    /\ menu.phase = "menu"
    /\ menu.launch_app = None
    /\ menu' = menu_key_handler(menu, key)
    /\ op' = <<"menu_key", key>>
    /\ UNCHANGED <<fwVars, calls, settings, ftp, sound>>

\* the body of the main loop when launch_app is set
MenuMainLoop ==
    /\ menu.phase = "menu"
    /\ menu.launch_app # None
    /\ menu' = draw_menu([menu EXCEPT !.launch_app = None,
                                      !.log = <<"run", menu.launch_app>>])
    /\ op' = <<"menu_run", 0>>
    /\ UNCHANGED <<fwVars, calls, settings, ftp, sound>>

MenuNext ==
    \/ \E importable \in SUBSET {APP_REGISTRY[i] : i \in 1..Len(APP_REGISTRY)} :
           MenuStart(importable)
    \/ \E key \in {KEYCODE_ENTER, KEYCODE_LINEFEED, KEY_SEMICOLON, KEY_PERIOD,
                     KEY_OTHER, 0} : MenuKey(key)
    \/ MenuMainLoop

MenuSpec == ApiInit /\ [][MenuNext]_vars

\* =================================================================== claims
IsHook(e) == e[2] \in {"on_install", "on_launch", "on_view", "on_ready",
                        "on_hide", "on_exit", "on_uninstall"}
RtlEntry == <<FW, "return_to_launcher">>
NoRaise(tr) == \A i \in 1..Len(tr) : tr[i][1] # RAISE
LauncherIsCurrent ==
    /\ pc = "run"
    /\ running
    /\ CurrentOk(St)
    /\ Kind(Current(St)) = "launcher"

\* C1: every start() call logged in the trace is followed by exactly on_launch,
\* on_view, on_ready of the same app and then returns; every stop() call is
\* followed by exactly on_hide, on_exit of the same app and then returns.
C1_LifecycleOrder ==
    \A i \in 1..Len(trace) :
        LET a == trace[i][1] IN
        /\ trace[i][2] = "start" =>
               /\ i + 4 <= Len(trace)
               /\ SubSeq(trace, i + 1, i + 4) =
                      << <<a, "on_launch">>, <<a, "on_view">>, <<a, "on_ready">>,
                         <<a, "start_ret">> >>
        /\ trace[i][2] = "stop" =>
               /\ i + 3 <= Len(trace)
               /\ SubSeq(trace, i + 1, i + 3) =
                      << <<a, "on_hide">>, <<a, "on_exit">>, <<a, "stop_ret">> >>

\* a dispatch in which one app was stopped and another started
C1_Witness ==
    /\ op[1] = "dispatch"
    /\ \E a, b \in Instances :
           /\ a # b
           /\ Contains(trace, <<a, "stop_ret">>)
           /\ Contains(trace, <<b, "start_ret">>)

\* C2: at most one app instance holds an un-cancelled background task, and in
\* every launch_app(B) the previously current app's task handle is None when
\* B.on_ready() has run.
C2_TaskExclusive ==
    /\ Cardinality({a \in Instances : live[a] > 0}) <= 1
    /\ \A i \in 1..Len(trace) :
           (trace[i][2] = "launch_app" /\ i + 1 <= Len(trace)) =>
               LET b   == trace[i][1]
                   old == trace[i + 1][1]
               IN  (Contains(trace, <<b, "on_ready">>) /\ old # b) => ~task[old]

\* C3: every launch_app(B) call runs A.stop() (on_hide, on_exit), then sets the
\* selector, then runs B.start() (on_launch, on_view, on_ready), and leaves B
\* the current app.
C3_LaunchOrder ==
    \A i \in 1..Len(trace) :
        trace[i][2] = "launch_app" =>
            LET b == trace[i][1] IN
            /\ i + 10 <= Len(trace)
            /\ \E a \in Instances :
                   SubSeq(trace, i + 1, i + 10) =
                       << <<a, "stop">>, <<a, "on_hide">>, <<a, "on_exit">>,
                          <<a, "stop_ret">>, <<FW, "select">>, <<b, "start">>,
                          <<b, "on_launch">>, <<b, "on_view">>, <<b, "on_ready">>,
                          <<b, "start_ret">> >>
            /\ CurrentOk(St)
            /\ Current(St) = b

\* C4: a dispatch whose handler returned calls return_to_launcher() once when
\* the key is ESCAPE and the handled flag is false, and not at all otherwise.
C4_EscapeFallback ==
    (op[1] = "dispatch" /\ NoRaise(trace)) =>
        Count(trace, RtlEntry) =
            IF evKey = KEYCODE_ESC /\ ~evStatus THEN 1 ELSE 0

\* an unconsumed ESCAPE in an app other than the launcher, which was stopped
C4_Witness ==
    /\ op = <<"dispatch", KEYCODE_ESC>>
    /\ ~evStatus
    /\ Count(trace, RtlEntry) = 1
    /\ \E a \in Instances : Contains(trace, <<a, "handler">>) /\ Contains(trace, <<a, "stop">>)

\* C5: the round trip.  After run() the launcher is current; after
\* launch_app(A) A is current with a running task and the launcher has none;
\* after an ESCAPE that A does not consume the launcher is current with a
\* running task, A has no task and no handle, and A.on_exit() ran once.
C5_RoundTrip ==
    /\ (op[1] = "run" /\ pc = "run" /\ launcher # None) =>
           /\ Current(St) = launcher
           /\ task[launcher]
    /\ \A i \in 1..Len(trace) :
           (trace[i][2] = "launch_app" /\ aliased /\ launcher # None) =>
               LET a == trace[i][1] IN
               /\ Current(St) = a
               /\ task[a] /\ live[a] = 1
               /\ ~task[launcher] /\ live[launcher] = 0
    /\ \A i \in 1..Len(trace) :
           (trace[i] = RtlEntry /\ i + 1 <= Len(trace) /\ launcher # None) =>
               LET a == trace[i + 1][1] IN
               /\ Current(St) = launcher
               /\ task[launcher] /\ live[launcher] = 1
               /\ ~task[a] /\ live[a] = 0
               /\ Count(trace, <<a, "on_exit">>) = 1

\* C6: ESCAPE dispatched while the designated launcher is current and its menu
\* stack is empty changes neither the framework's nor the launcher's state and
\* runs no lifecycle hook.
C6_EscapeAtRootNoop ==
    [][(/\ op' = <<"dispatch", KEYCODE_ESC>>
        /\ LauncherIsCurrent
        /\ launcher # None
        /\ Current(St) = launcher
        /\ lstack = <<>>)
       => /\ UNCHANGED <<pc, apps, selApps, aliased, selId, launcher, running,
                         cache, scanned, registry, gen, task, live, fwSet,
                         lsel, lscroll, lstack, lreg>>
          /\ \A i \in 1..Len(trace') :
                 ~IsHook(trace'[i]) /\ trace'[i][2] \notin {"start", "stop"}]_vars

\* the unconsumed ESCAPE at the root reached return_to_launcher()
C6_Witness ==
    /\ op = <<"dispatch", KEYCODE_ESC>>
    /\ LauncherIsCurrent
    /\ Current(St) = launcher
    /\ lstack = <<>>
    /\ lsel > 0
    /\ task[launcher]
    /\ Contains(trace, RtlEntry)

\* C7: entering a submenu pushes exactly the registry node, selection and
\* scroll offset of that moment; the stack is otherwise only popped by one or
\* emptied; ESCAPE in a submenu pops one context, makes exactly its values the
\* current ones, is marked handled and leaves the launcher current.
C7_SubmenuEscapeRestores ==
    [][/\ (Len(lstack') = Len(lstack) + 1 =>
              lstack' = Append(lstack, [reg |-> lreg, sel |-> lsel,
                                        scroll |-> lscroll]))
       /\ \/ Len(lstack') >= Len(lstack)
          \/ lstack' = <<>>
          \/ lstack' = SubSeq(lstack, 1, Len(lstack) - 1)
       /\ (Len(lstack') = Len(lstack) => lstack' = lstack)
       /\ (/\ op' = <<"dispatch", KEYCODE_ESC>>
           /\ LauncherIsCurrent
           /\ Len(lstack) > 0)
          => /\ lstack' = SubSeq(lstack, 1, Len(lstack) - 1)
             /\ lreg' = lstack[Len(lstack)].reg
             /\ lsel' = lstack[Len(lstack)].sel
             /\ lscroll' = lstack[Len(lstack)].scroll
             /\ evStatus'
             /\ pc' = "run"
             /\ selId' = selId
             /\ selApps' = selApps
             /\ ~Contains(trace', RtlEntry)]_vars

\* back at the root from a submenu entered with the list scrolled
C7_Witness ==
    /\ op = <<"dispatch", KEYCODE_ESC>>
    /\ Contains(trace, <<LauncherInst, "pop">>)
    /\ lreg = "root"
    /\ lsel = 1
    /\ lscroll = 1

\* C8: an unconsumed ESCAPE in an app that was launched from a submenu makes
\* the launcher current at the root registry with an empty menu stack, and
\* entering a submenu starts at selection 0 and scroll offset 0.
C8_ReturnResetsMenu ==
    [][/\ (/\ op' = <<"dispatch", KEYCODE_ESC>>
           /\ pc = "run" /\ running
           /\ launcher # None
           /\ CurrentOk(St)
           /\ Current(St) # launcher
           /\ Len(lstack) > 0
           /\ ~evStatus'
           /\ pc' = "run")
          => /\ current(selApps', selId') = launcher
             /\ lreg' = "root"
             /\ lstack' = <<>>
       /\ (/\ op' = <<"dispatch", KEYCODE_ENTER>>
           /\ LauncherIsCurrent
           /\ lsel < Len(_get_menu_entries(St))
           /\ _get_menu_entries(St)[lsel + 1].type = "submenu")
          => /\ lreg' = _get_menu_entries(St)[lsel + 1].key
             /\ lsel' = 0
             /\ lscroll' = 0]_vars

\* the submenu "demo" entered again after the app loaded from it has returned
C8_Witness ==
    /\ op = <<"dispatch", KEYCODE_ENTER>>
    /\ LauncherIsCurrent
    /\ Current(St) = launcher
    /\ cache["demo/ftp_server_app"] # None
    /\ Contains(trace, <<LauncherInst, "push">>)
    /\ lreg = "demo"
    /\ lsel = 0
    /\ lscroll = 0

C10_SelectCurrentNoop ==
    op[1] = "select_current" => selId = op[2]

\* C10 amended: select(current()) leaves the current app unchanged and sets
\* the index to the first position of that instance; the index is unchanged
\* when no earlier entry of the list is the same instance.
C10_SelectCurrentFirst ==
    op[1] = "select_current" =>
        /\ current(selApps, selId) = current(selApps, op[2])
        /\ \A j \in 0..(selId - 1) : current(selApps, j) # current(selApps, selId)
        /\ (\A j \in 0..(op[2] - 1) : current(selApps, j) # current(selApps, op[2]))
               => selId = op[2]

\* select(current()) called with the index on the second entry of [A, A]
C10_Witness ==
    /\ op = <<"select_current", 1>>
    /\ Len(selApps) = 2
    /\ selApps[1] = selApps[2]
    /\ selId = 0

\* every path is cached as before (None or the same instance)
CacheUnchanged ==
    \A p \in Paths :
        IF cache[p] = None THEN cache'[p] = None ELSE cache[p] = cache'[p]

\* C11 as stated: after any sequence of API calls the selector index is
\* inside the list the selector reads.
C11_IndexInRange ==
    /\ 0 <= selId
    /\ selId < Len(selApps)

\* C11 amended: whenever the list the selector reads is not empty, the index
\* is inside it, so that current() resolves to one app; the list never shrinks.
C11_IndexInRangeNonEmpty ==
    /\ 0 <= selId
    /\ Len(selApps) > 0 => selId < Len(selApps)
    /\ Len(selApps) = 0 => selId = 0

\* clear_app_cache() called with the index on the second app: Framework._apps
\* has become shorter than the index, the selector's list has not
C11_Witness ==
    /\ op[1] = "clear_app_cache"
    /\ selId >= 1
    /\ Len(apps) <= selId
    /\ selId < Len(selApps)

\* C12: while the main loop runs, every app that is not the selector's current
\* app has no un-cancelled background task and no task handle.
C12_NoStaleTask ==
    (pc = "run" /\ CurrentOk(St)) =>
        \A a \in Instances :
            a # Current(St) => (~task[a] /\ live[a] = 0)

\* C13: get_or_load_app(path) with the path in the cache returns the cached
\* instance without an import or an install() call and leaves cache and app
\* list unchanged; with the path not in the cache, a call that returns an
\* instance has imported once, called on_install() of that instance once,
\* cached it, and the instance is one that was in no list before and is in the
\* app list once afterwards.
C13_LoadOnce ==
    [][\A path \in Paths :
          (op'[1] = "get_or_load_app" /\ op'[2] = path) =>
              /\ cache[path] # None =>
                     /\ trace' = << <<cache[path], "returned">> >>
                     /\ apps' = apps
                     /\ selApps' = selApps
                     /\ CacheUnchanged
              /\ \A a \in Instances :
                     (cache[path] = None /\ Contains(trace', <<a, "returned">>)) =>
                         /\ Count(trace', <<FW, "import">>) = 1
                         /\ Count(trace', <<a, "on_install">>) = 1
                         /\ a = cache'[path]
                         /\ ~Contains(apps, a)
                         /\ ~Contains(selApps, a)
                         /\ \A q \in Paths : a # cache[q]
                         /\ Count(apps', a) = 1]_vars

\* load, clear_app_cache(), load again, and a further call that is served
\* from the cache with the second instance
C13_Witness ==
    /\ op[1] = "get_or_load_app"
    /\ op[2] = "hello_world"
    /\ gen = 1
    /\ <<"hello_world", 1>> = cache["hello_world"]
    /\ trace = << << <<"hello_world", 1>>, "returned">> >>
    /\ Contains(selApps, <<"hello_world", 0>>)

Abs(x) == IF x < 0 THEN 0 - x ELSE x

C15_KeyboardOwnedByFramework ==
    \A i \in 1..Len(trace) : trace[i][2] \notin {"wait_key", "get_key"}

C17_FailedLoad ==
    [][(op'[1] = "dispatch" /\ Contains(trace', <<FW, "load_failed">>)) =>
           /\ pc' = pc
           /\ CacheUnchanged
           /\ apps' = apps
           /\ selApps' = selApps
           /\ selId' = selId
           /\ \A i \in 1..Len(trace') :
                  trace'[i][2] \notin {"launch_app", "start", "stop"}
           /\ Kind(Current(St)) = "launcher"
           /\ task[Current(St)]
           /\ task' = task
           /\ live' = live]_vars

\* hello_world was imported and its on_install() raised
C17_Witness ==
    /\ op[1] = "dispatch"
    /\ op[2] = KEYCODE_ENTER
    /\ LauncherIsCurrent
    /\ task[Current(St)]
    /\ Contains(trace, <<RAISE, "on_install">>)
    /\ Contains(trace, <<FW, "load_failed">>)
    /\ \A p \in Paths : cache[p] = None

\* C18: Framework.install(app) with a raising on_install() passes the
\* exception on and leaves the app list as it was; otherwise on_install() is
\* called once and the app is appended once.
C18_InstallRaises ==
    [][op'[1] = "install" =>
           IF Contains(trace', <<RAISE, "on_install">>)
           THEN /\ pc' = "crashed"
                /\ apps' = apps
                /\ selApps' = selApps
           ELSE /\ pc' = pc
                /\ Count(trace', <<op'[2], "on_install">>) = 1
                /\ apps' = Append(apps, op'[2])]_vars

\* the second install() raised
C18_Witness ==
    /\ op[1] = "install"
    /\ pc = "crashed"
    /\ Len(apps) = 1
    /\ Contains(trace, <<RAISE, "on_install">>)

\* C19: a dispatch in which the handler raised ends the main loop with the
\* exception: no return_to_launcher(), no stop(), the current app and its task
\* as before, and no step of the program after it.
C19_HandlerRaises ==
    [][/\ (op'[1] = "dispatch" /\ Contains(trace', <<RAISE, "handler">>)) =>
              /\ pc' = "crashed"
              /\ ~Contains(trace', RtlEntry)
              /\ \A i \in 1..Len(trace') : trace'[i][2] \notin {"stop", "start"}
              /\ selId' = selId
              /\ selApps' = selApps
              /\ task' = task
              /\ live' = live
       /\ pc # "crashed"]_vars

\* the handler of the running FTP server app raised on ESCAPE
C19_Witness ==
    /\ pc = "crashed"
    /\ op[1] = "dispatch"
    /\ op[2] = KEYCODE_ESC
    /\ Contains(trace, <<RAISE, "handler">>)
    /\ Kind(Current(St)) = "srv"
    /\ task[Current(St)]

\* C20: in the launcher menu down and up move the selection by one with
\* wraparound; the selection is always inside the visible window, and after
\* the move the scroll offset is, of all offsets that show the selection, the
\* one nearest to the previous offset.
C20_MenuNavigation ==
    [][/\ lscroll' <= lsel'
       /\ lsel' < lscroll' + VISIBLE_ITEMS
       /\ (/\ op'[1] = "dispatch"
           /\ LauncherIsCurrent
           /\ Len(_get_menu_entries(St)) > 0
           /\ op'[2] \in {KEYCODE_DOWN, KEY_PERIOD, KEYCODE_UP, KEY_SEMICOLON}) =>
              LET n == Len(_get_menu_entries(St)) IN
              /\ op'[2] \in {KEYCODE_DOWN, KEY_PERIOD} =>
                     lsel' = IF lsel = n - 1 THEN 0 ELSE lsel + 1
              /\ op'[2] \in {KEYCODE_UP, KEY_SEMICOLON} =>
                     lsel' = IF lsel = 0 THEN n - 1 ELSE lsel - 1
              /\ \A c \in 0..n :
                     (c <= lsel' /\ lsel' < c + VISIBLE_ITEMS) =>
                         Abs(lscroll' - lscroll) <= Abs(c - lscroll)
              /\ evStatus']_vars

\* down on the last of the five root entries: the selection wrapped to the
\* first and the list scrolled back
C20_Witness ==
    /\ op[1] = "dispatch"
    /\ op[2] = KEYCODE_DOWN
    /\ LauncherIsCurrent
    /\ lreg = "root"
    /\ lsel = 0
    /\ lscroll = 0

\* C21: every app get_or_load_app has returned (and cached) is a member of
\* the list the AppSelector reads.
C21_LoadedAppSelectable ==
    \A p \in Paths : cache[p] = None \/ Contains(selApps, cache[p])

\* C26: a launch_app call in which select raised has stopped nothing and run
\* no hook: the current app has its task as before.
C26_FailedLaunchUnchanged ==
    (/\ Contains(trace, <<RAISE, "ValueError">>)
     /\ \E i \in 1..Len(trace) : trace[i][2] = "launch_app") =>
        \A i \in 1..Len(trace) :
            trace[i][2] \notin {"stop", "on_hide", "on_exit"}

\* C28: when ENTER is dispatched to the launcher on a non-empty menu, the
\* selection is an index of the current entries, and the handler raises no
\* IndexError.
C28_SelectionInRange ==
    [][(/\ op'[1] = "dispatch"
        /\ op'[2] = KEYCODE_ENTER
        /\ LauncherIsCurrent
        /\ Len(_get_menu_entries(St)) > 0) =>
           /\ 0 <= lsel
           /\ lsel < Len(_get_menu_entries(St))
           /\ ~Contains(trace', <<RAISE, "IndexError">>)]_vars

\* ENTER on the last root entry after the return from the app that was
\* launched from the sixth entry of "demo": the selection was clamped
C28_Witness ==
    /\ op[1] = "dispatch"
    /\ op[2] = KEYCODE_ENTER
    /\ LauncherIsCurrent
    /\ lreg = "root"
    /\ lsel = 4
    /\ lscroll = 2
    /\ Contains(trace, <<FW, "load_failed">>)

\* C27: every app instance has at most one un-cancelled background task, and
\* an instance with an un-cancelled task has its task handle set.
C27_OneTaskPerApp ==
    \A a \in Instances :
        /\ live[a] <= 1
        /\ live[a] = 1 => task[a]

\* C22 as stated: an ESCAPE dispatched to SettingsApp while the WiFi tab is in
\* password input mode leaves input mode, clears the typed password, marks the
\* event handled and keeps SettingsApp the current app.
C22_EscCancelsPasswordInput ==
    [][(/\ op'[1] = "settings_key"
        /\ op'[2] = KEYCODE_ESC
        /\ settings.cur
        /\ settings._current_tab = TAB_WIFI
        /\ settings._wifi_input_mode) =>
           /\ ~settings'._wifi_input_mode
           /\ settings'._wifi_password = <<>>
           /\ settings'.status
           /\ settings'.cur]_vars

\* C23 as stated: the key after the 0 key turned the screen off on the Display
\* tab, when it is not ESCAPE, restores a non-zero LCD brightness and is
\* consumed as the wake-up key: the handler runs no command for it.
C23_KeyAfterScreenOffWakes ==
    [][(/\ op'[1] = "settings_key"
        /\ op'[2] # KEYCODE_ESC
        /\ settings.cur
        /\ settings._current_tab = TAB_DISPLAY
        /\ settings.log = <<"_screen_off">>) =>
           /\ settings'.lcd > 0
           /\ settings'.status
           /\ settings'.log = <<"wake">>]_vars

\* C24 as stated: while authentication is enabled, a command other than USER,
\* PASS and QUIT from a connection that has not presented the configured user
\* name and password is answered with 530 and changes nothing.
C24_UnauthenticatedRejected ==
    [][(/\ op'[1] = "exec_ftp_command"
        /\ op'[2] \notin {"USER", "PASS", "QUIT"}
        /\ ftp.auth_enabled
        /\ ~ftp.presented) =>
           /\ ftp'.log = <<"530">>
           /\ ftp'.fs = ftp.fs
           /\ ftp'.cwd = ftp.cwd
           /\ ftp'.fromname = ftp.fromname]_vars

\* C25 as stated: a write command whose resolved path is /system or under it,
\* or any write command while read_only is set, is answered with 550 and
\* changes no file.
C25_ProtectedWriteRejected550 ==
    [][(/\ op'[1] = "exec_ftp_command"
        /\ op'[2] \in WriteCommands
        /\ \/ ftp'.path = <<"system">>
           \/ Len(ftp'.path) > 1 /\ ftp'.path[1] = "system"
           \/ ftp.read_only) =>
           /\ ftp'.log = <<"550">>
           /\ ftp'.fs = ftp.fs
           /\ ftp'.fromname = ftp.fromname]_vars

\* C25 amended: such a write command changes no file and is answered with
\* 550, or with 530 when authentication is enabled and the connection is not
\* logged in.
C25_ProtectedWriteRejected ==
    [][(/\ op'[1] = "exec_ftp_command"
        /\ op'[2] \in WriteCommands
        /\ \/ ftp'.path = <<"system">>
           \/ Len(ftp'.path) > 1 /\ ftp'.path[1] = "system"
           \/ ftp.read_only) =>
           /\ ftp'.fs = ftp.fs
           /\ ftp'.fromname = ftp.fromname
           /\ IF ftp.auth_enabled /\ ~ftp.logged_in
              THEN ftp'.log = <<"530">>
              ELSE ftp'.log = <<"550">>]_vars

\* DELE of a path spelled ../system/./f from /flash, read_only off, was
\* answered with 550 and /system/f is still there
C25_Witness ==
    /\ op[1] = "exec_ftp_command"
    /\ op[2] = "DELE"
    /\ ftp.cwd = <<"flash">>
    /\ ftp.path = <<"system", "f">>
    /\ ~ftp.read_only
    /\ ftp.log = <<"550">>
    /\ ftp.fs[<<"system", "f">>] = "file"

\* C29 as stated: SoundDemo has at most one demo task at any time, and a demo
\* task that existed when ESCAPE was dispatched to SoundDemo plays no tone and
\* draws nothing when it runs afterwards.
C29_OneQuietDemoTask ==
    [][/\ Len(sound'.tasks) <= 1
       /\ (/\ op'[1] = "sound_task"
           /\ sound.tasks[op'[2]].esc) => sound'.log = <<>>]_vars

\* C30 as stated: when Enter is pressed on a non-empty menu, the app that is
\* instantiated is the entry the menu shows as selected.
C30_EnterRunsSelected ==
    [][(/\ op'[1] = "menu_key"
        /\ op'[2] \in {KEYCODE_ENTER, KEYCODE_LINEFEED}
        /\ Len(menu.apps) > 0) =>
           /\ menu.drawn = menu.apps[menu.selected + 1]
           /\ menu'.launch_app = menu.drawn]_vars


====
